---- MODULE Spec2Model ----
(***************************************************************************)
(* Model of Aiexecutables/mypy.py: a controller that launches an Arimaa    *)
(* engine, drains its output on a daemon thread into a queue, and drives   *)
(* the AEI protocol (aei / isready / newgame / setposition / setoption /   *)
(* go / quit) from the main flow.                                          *)
(*                                                                         *)
(* Text is modelled as a sequence of units.  A unit is one character or    *)
(* one word of ordinary ASCII text ("aeiok", " ", "\n"), or one raw byte   *)
(* of a non-ASCII encoding ("0xC3", "0xA9", "0xFF").                       *)
(***************************************************************************)
EXTENDS Naturals, Sequences, FiniteSets, TLC

VARIABLES
    vocab,      \* the chunks this engine is able to write
    engine,     \* the child process: "running" or "exited"
    stdinOpen,  \* the child still reads its standard input
    emitted,    \* history: the chunks the engine wrote to its output, in order
    pipe,       \* bytes written by the engine and not yet read by the drain
    drain,      \* the reader thread: "reading", "crashed" or "closed"
    q,          \* queue.Queue of decoded lines
    pc,         \* position of the main flow
    line,       \* the main flow's variable `line`
    bestmove,   \* the main flow's variable `bestmove`
    wbuf,       \* bytes written to engine.stdin and not yet flushed
    stdin,      \* bytes delivered to the engine's standard input
    sent,       \* history: the commands delivered, each with the pop count then
    popped,     \* history: the lines returned by q.get(), in order
    emptyPolls, \* history: timed polls that ended in queue.Empty, modulo MaxPolls + 1
    err,        \* the exception that ended the main flow, or "none"
    reaped      \* engine.wait() has returned

vars == <<vocab, engine, stdinOpen, emitted, pipe, drain, q, pc, line, bestmove,
          wbuf, stdin, sent, popped, emptyPolls, err, reaped>>

(***************************************************************************)
(* Bounds                                                                  *)
(***************************************************************************)
MaxEmit == 4
MaxPolls == 2
MaxNoise == 2

(***************************************************************************)
(* Text units                                                              *)
(***************************************************************************)
NL == "\n"
None == <<"<None>">>
Whitespace == {" ", "\t", "\r", "\n"}

\* The chunks an engine may write.  Each profile is one kind of engine.
AEIOK == <<"aeiok", NL>>
READYOK == <<"readyok", NL>>
BEST1 == <<"bestmove", " ", "Hh2n", NL>>
BEST2 == <<"bestmove", " ", "Ee2n", NL>>
PROTO == <<"protocol-version", " ", "1", NL>>
IDNAME == <<"id", " ", "name", " ", "Foo", NL>>
PAD_AEIOK == <<" ", "aeiok", "\r", NL>>
PAD_READYOK == <<"readyok", " ", NL>>
BADLINE == <<"log", "0xFF", NL>>
UTF8LINE == <<"0xC3", "0xA9", NL>>
FRAGMENT == <<"info">>

EngineProfiles ==
    { {AEIOK, READYOK, BEST1, BEST2, IDNAME},
      {PROTO, IDNAME, AEIOK, PAD_AEIOK, PAD_READYOK},
      {AEIOK, READYOK, BADLINE, UTF8LINE, FRAGMENT} }

Chunks == UNION EngineProfiles

\* What a well-behaved engine writes besides its answers.
LiveNoise == {IDNAME, BADLINE}

\* Two small engines for the properties of the drain thread alone: one that
\* speaks the protocol, one that writes odd bytes.
DrainProfiles ==
    { {AEIOK, READYOK, BEST1},
      {UTF8LINE, BADLINE, FRAGMENT} }

(***************************************************************************)
(* Pure functions of the source                                            *)
(***************************************************************************)
\* stream.readline on the bytes at hand: up to and including the first "\n",
\* or everything when there is none (only returned at end of stream).
HasNL(bytes) == \E i \in 1..Len(bytes) : bytes[i] = NL

FirstNL(bytes) ==
    CHOOSE i \in 1..Len(bytes) :
        /\ bytes[i] = NL
        /\ \A j \in 1..(i - 1) : bytes[j] # NL

ReadLine(bytes) ==
    IF HasNL(bytes) THEN SubSeq(bytes, 1, FirstNL(bytes)) ELSE bytes

AfterReadLine(bytes) ==
    IF HasNL(bytes) THEN SubSeq(bytes, FirstNL(bytes) + 1, Len(bytes)) ELSE <<>>

\* bytes.decode("utf-8"): ASCII units decode to themselves, the two bytes
\* 0xC3 0xA9 decode to one character, any other use of a high byte is invalid.
HighBytes == {"0xC3", "0xA9", "0xFF"}

RECURSIVE Decodable(_)
Decodable(bytes) ==
    IF bytes = <<>> THEN TRUE
    ELSE IF Head(bytes) \notin HighBytes THEN Decodable(Tail(bytes))
    ELSE IF Head(bytes) = "0xC3" /\ Len(bytes) >= 2 /\ bytes[2] = "0xA9"
         THEN Decodable(Tail(Tail(bytes)))
    ELSE FALSE

RECURSIVE Decode(_)
Decode(bytes) ==
    IF bytes = <<>> THEN <<>>
    ELSE IF Head(bytes) = "0xC3" THEN <<"e-acute">> \o Decode(Tail(Tail(bytes)))
    ELSE <<Head(bytes)>> \o Decode(Tail(bytes))

\* str.rstrip("\n")
RECURSIVE RStripNL(_)
RStripNL(s) ==
    IF s # <<>> /\ s[Len(s)] = NL THEN RStripNL(SubSeq(s, 1, Len(s) - 1)) ELSE s

\* str.strip()
RECURSIVE LStrip(_)
LStrip(s) ==
    IF s # <<>> /\ Head(s) \in Whitespace THEN LStrip(Tail(s)) ELSE s

RECURSIVE RStrip(_)
RStrip(s) ==
    IF s # <<>> /\ s[Len(s)] \in Whitespace THEN RStrip(SubSeq(s, 1, Len(s) - 1)) ELSE s

Strip(s) == LStrip(RStrip(s))

\* str.startswith("bestmove")
StartsWithBestmove(s) == s # <<>> /\ Head(s) = "bestmove"

\* mutants: the first handshake loop leaves on any line; it wants the bare word
IsAeiok_Any(s) == TRUE
IsAeiok_Exact(s) == s = <<"aeiok">>

\* the exit tests of the two handshake loops
IsAeiok(s) == Strip(s) = <<"aeiok">>

IsReadyok(s) == Strip(s) = <<"readyok">>

\* the value the drain puts on the queue for one raw line
DrainValue(raw) == RStripNL(Decode(raw))

\* mutant: a LIFO queue
QPut_Lifo(qq, l) == <<l>> \o qq

\* queue.Queue: put at the tail, get from the head
QPut(qq, l) == Append(qq, l)
QGet(qq) == Head(qq)

\* mutant: a pop throws away everything that was queued
QRest_Flush(qq) == <<>>

QRest(qq) == Tail(qq)

\* mutant: a queue of one slot, put blocks while it is taken
QHasRoom_OneSlot(qq) == Len(qq) < 1

\* queue.Queue() has maxsize 0: put never waits for room
QHasRoom(qq) == TRUE

\* mutant: the terminator is forgotten
Frame_NoTerminator(cmd) == <<cmd>>

\* (cmd + "\n").encode("utf-8")
Frame(cmd) == <<cmd, NL>>

\* BufferedWriter.flush: everything buffered reaches the pipe
Flushed(delivered, buf) == delivered \o buf

(***************************************************************************)
(* Initial state: the engine is spawned, the queue is empty, the drain     *)
(* thread is started, and the main flow is about to send "aei".            *)
(***************************************************************************)
InitWith(profiles) ==
    /\ vocab \in profiles
    /\ engine = "running"
    /\ stdinOpen = TRUE
    /\ emitted = <<>>
    /\ pipe = <<>>
    /\ drain = "reading"
    /\ q = <<>>
    /\ pc = "send_aei"
    /\ line = None
    /\ bestmove = None
    /\ wbuf = <<>>
    /\ stdin = <<>>
    /\ sent = <<>>
    /\ popped = <<>>
    /\ emptyPolls = 0
    /\ err = "none"
    /\ reaped = FALSE

Init == InitWith(EngineProfiles)

\* The interpreter has left the script: normally, or by an uncaught exception.
\* The daemon thread dies with it, and what the engine does afterwards is seen
\* by nobody, so no step is modelled after that point.
Terminated == pc \in {"done", "aborted"}

(***************************************************************************)
(* The engine (external process)                                           *)
(***************************************************************************)
EngineEmit ==
    /\ ~Terminated
    /\ engine = "running"
    /\ Len(emitted) < MaxEmit
    /\ \E c \in vocab :
        /\ emitted' = Append(emitted, c)
        /\ pipe' = pipe \o c
    /\ UNCHANGED <<vocab, engine, stdinOpen, drain, q, pc, line, bestmove,
                   wbuf, stdin, sent, popped, emptyPolls, err, reaped>>

EngineCloseStdin ==
    /\ ~Terminated
    /\ engine = "running"
    /\ stdinOpen
    /\ stdinOpen' = FALSE
    /\ UNCHANGED <<vocab, engine, emitted, pipe, drain, q, pc, line, bestmove,
                   wbuf, stdin, sent, popped, emptyPolls, err, reaped>>

EngineExit ==
    /\ ~Terminated
    /\ engine = "running"
    /\ engine' = "exited"
    /\ stdinOpen' = FALSE
    /\ UNCHANGED <<vocab, emitted, pipe, drain, q, pc, line, bestmove,
                   wbuf, stdin, sent, popped, emptyPolls, err, reaped>>

(***************************************************************************)
(* enqueue_output, one loop iteration per step                             *)
(***************************************************************************)
\* readline has something to return: a whole line, or the rest at end of stream
LineReadable == HasNL(pipe) \/ (engine = "exited" /\ pipe # <<>>)

\* mutants: the drain stops as soon as no whole line is left; it never sees
\* the end of the stream
AtEndOfStream_NoWholeLine == engine = "exited" /\ ~HasNL(pipe)
AtEndOfStream_Never == FALSE

\* readline returns b"": the stream is at its end and nothing is left
AtEndOfStream == engine = "exited" /\ pipe = <<>>

DrainPush ==
    /\ ~Terminated
    /\ drain = "reading"
    /\ LineReadable
    /\ Decodable(ReadLine(pipe))
    /\ QHasRoom(q)
    /\ pipe' = AfterReadLine(pipe)
    /\ q' = QPut(q, DrainValue(ReadLine(pipe)))
    /\ UNCHANGED <<vocab, engine, stdinOpen, emitted, drain, pc, line, bestmove,
                   wbuf, stdin, sent, popped, emptyPolls, err, reaped>>

\* decode raises UnicodeDecodeError; nothing catches it and the thread ends
DrainDecodeError ==
    /\ ~Terminated
    /\ drain = "reading"
    /\ LineReadable
    /\ ~Decodable(ReadLine(pipe))
    /\ pipe' = AfterReadLine(pipe)
    /\ drain' = "crashed"
    /\ UNCHANGED <<vocab, engine, stdinOpen, emitted, q, pc, line, bestmove,
                   wbuf, stdin, sent, popped, emptyPolls, err, reaped>>

DrainClose ==
    /\ ~Terminated
    /\ drain = "reading"
    /\ AtEndOfStream
    /\ drain' = "closed"
    /\ UNCHANGED <<vocab, engine, stdinOpen, emitted, pipe, q, pc, line, bestmove,
                   wbuf, stdin, sent, popped, emptyPolls, err, reaped>>

(***************************************************************************)
(* send(cmd)                                                               *)
(***************************************************************************)
\* mutant: a write to a closed pipe is swallowed
SendFails_Never(open) == FALSE

\* flush raises BrokenPipeError when nobody reads the pipe any more
SendFails(open) == ~open

Send(cmd, next) ==
    IF SendFails(stdinOpen)
    THEN /\ wbuf' = wbuf \o Frame(cmd)
         /\ pc' = "aborted"
         /\ err' = "BrokenPipeError"
         /\ UNCHANGED <<stdin, sent>>
    ELSE /\ wbuf' = <<>>
         /\ stdin' = Flushed(stdin, wbuf \o Frame(cmd))
         /\ sent' = Append(sent, [cmd |-> cmd, after |-> Len(popped)])
         /\ pc' = next
         /\ UNCHANGED err

SendOnly(at, cmd, next) ==
    /\ pc = at
    /\ Send(cmd, next)
    /\ UNCHANGED <<vocab, engine, stdinOpen, emitted, pipe, drain, q, line,
                   bestmove, popped, emptyPolls, reaped>>

(***************************************************************************)
(* The main flow                                                           *)
(***************************************************************************)
SETPOSITION == "setposition g [rrrrrrrrhcdmedch                                HCDMEDCHRRRRRRRR]"
SETOPTION == "setoption name tcmove value 10"

SendAei == SendOnly("send_aei", "aei", "wait_aeiok")

\* mutant: the wait loops leave on the first line, whatever it is
WaitNext_Always(matched, at, next) == next

\* one iteration of a blocking wait loop: q.get(), then the exit test
WaitNext(matched, at, next) == IF matched THEN next ELSE at

WaitFor(at, matched, next) ==
    /\ pc = at
    /\ q # <<>>
    /\ line' = QGet(q)
    /\ q' = QRest(q)
    /\ popped' = Append(popped, QGet(q))
    /\ pc' = WaitNext(matched, at, next)
    /\ UNCHANGED <<vocab, engine, stdinOpen, emitted, pipe, drain, bestmove,
                   wbuf, stdin, sent, emptyPolls, err, reaped>>

WaitAeiok == WaitFor("wait_aeiok", IsAeiok(QGet(q)), "send_isready")

SendIsready == SendOnly("send_isready", "isready", "wait_readyok")

WaitReadyok == WaitFor("wait_readyok", IsReadyok(QGet(q)), "send_newgame")

SendNewgame == SendOnly("send_newgame", "newgame", "send_setposition")

SendSetposition == SendOnly("send_setposition", SETPOSITION, "send_setoption")

SendSetoption == SendOnly("send_setoption", SETOPTION, "send_go")

\* send("go"), then bestmove = None
SendGo ==
    /\ pc = "send_go"
    /\ Send("go", "searching")
    /\ bestmove' = IF SendFails(stdinOpen) THEN bestmove ELSE None
    /\ UNCHANGED <<vocab, engine, stdinOpen, emitted, pipe, drain, q, line,
                   popped, emptyPolls, reaped>>

\* mutants: the polling loop has no break; it breaks on any line
PollNext_NoBreak(l) == "searching"
PollNext_AnyLine(l) == "send_quit"

\* the test of the polling loop: break on a bestmove line, else poll again
PollNext(l) == IF StartsWithBestmove(l) THEN "send_quit" ELSE "searching"

\* mutant: the marker and the blank after it are cut off
ResultOf_MoveText(l) == SubSeq(l, 3, Len(l))

\* bestmove = line
ResultOf(l) == l

\* q.get(timeout=0.1) returns a line
PollLine ==
    /\ pc = "searching"
    /\ q # <<>>
    /\ line' = QGet(q)
    /\ q' = QRest(q)
    /\ popped' = Append(popped, QGet(q))
    /\ pc' = PollNext(QGet(q))
    /\ bestmove' = IF StartsWithBestmove(QGet(q)) THEN ResultOf(QGet(q)) ELSE bestmove
    /\ UNCHANGED <<vocab, engine, stdinOpen, emitted, pipe, drain,
                   wbuf, stdin, sent, emptyPolls, err, reaped>>

\* mutant: an empty poll ends the search
AfterEmpty_GiveUp == "send_quit"

\* except queue.Empty: continue
AfterEmpty == "searching"

\* q.get(timeout=0.1) raises queue.Empty; the loop continues
PollEmpty ==
    /\ pc = "searching"
    /\ q = <<>>
    /\ emptyPolls' = (emptyPolls + 1) % (MaxPolls + 1)
    /\ pc' = AfterEmpty
    /\ UNCHANGED <<vocab, engine, stdinOpen, emitted, pipe, drain, q, line,
                   bestmove, wbuf, stdin, sent, popped, err, reaped>>

SendQuit == SendOnly("send_quit", "quit", "wait_exit")

\* engine.wait() returns once the child has exited
WaitExit ==
    /\ pc = "wait_exit"
    /\ engine = "exited"
    /\ reaped' = TRUE
    /\ pc' = "done"
    /\ UNCHANGED <<vocab, engine, stdinOpen, emitted, pipe, drain, q, line,
                   bestmove, wbuf, stdin, sent, popped, emptyPolls, err>>

Engine == EngineEmit \/ EngineCloseStdin \/ EngineExit

(***************************************************************************)
(* A well-behaved engine: it answers "aei" with aeiok, "isready" with      *)
(* readyok and "go" with a bestmove line, each once and only when asked,   *)
(* keeps reading its input, and exits when it has read "quit".  Between    *)
(* its answers it may write a few other lines.                             *)
(***************************************************************************)
Wrote(c) == \E i \in 1..Len(emitted) : emitted[i] = c

NoiseWritten == Cardinality({i \in 1..Len(emitted) : emitted[i] \in LiveNoise})

Awaited ==
    IF Len(sent) >= 6 /\ Wrote(READYOK) /\ ~Wrote(BEST1) THEN <<BEST1>>
    ELSE IF Len(sent) >= 2 /\ Wrote(AEIOK) /\ ~Wrote(READYOK) THEN <<READYOK>>
    ELSE IF Len(sent) >= 1 /\ ~Wrote(AEIOK) THEN <<AEIOK>>
    ELSE <<>>

EngineAnswer ==
    /\ ~Terminated
    /\ engine = "running"
    /\ Awaited # <<>>
    /\ emitted' = Append(emitted, Awaited[1])
    /\ pipe' = pipe \o Awaited[1]
    /\ UNCHANGED <<vocab, engine, stdinOpen, drain, q, pc, line, bestmove,
                   wbuf, stdin, sent, popped, emptyPolls, err, reaped>>

EngineNoise ==
    /\ ~Terminated
    /\ engine = "running"
    /\ NoiseWritten < MaxNoise
    /\ \E c \in vocab :
        /\ emitted' = Append(emitted, c)
        /\ pipe' = pipe \o c
    /\ UNCHANGED <<vocab, engine, stdinOpen, drain, q, pc, line, bestmove,
                   wbuf, stdin, sent, popped, emptyPolls, err, reaped>>

EngineQuit ==
    /\ ~Terminated
    /\ engine = "running"
    /\ Len(sent) = 7
    /\ engine' = "exited"
    /\ stdinOpen' = FALSE
    /\ UNCHANGED <<vocab, emitted, pipe, drain, q, pc, line, bestmove,
                   wbuf, stdin, sent, popped, emptyPolls, err, reaped>>

Drain == DrainPush \/ DrainDecodeError \/ DrainClose

Main ==
    \/ SendAei \/ WaitAeiok \/ SendIsready \/ WaitReadyok
    \/ SendNewgame \/ SendSetposition \/ SendSetoption \/ SendGo
    \/ PollLine \/ PollEmpty \/ SendQuit \/ WaitExit

Next == Engine \/ Drain \/ Main

Spec == Init /\ [][Next]_vars

\* The two threads are scheduled fairly; the engine owes nothing.
FairSpec == Spec /\ WF_vars(Main) /\ WF_vars(Drain)

\* The program with a well-behaved engine: both threads run, and the engine
\* does not leave a command unanswered for ever.
LiveNext == EngineAnswer \/ EngineNoise \/ EngineQuit \/ Drain \/ Main

LiveSpec ==
    /\ InitWith({LiveNoise})
    /\ [][LiveNext]_vars
    /\ WF_vars(Main)
    /\ WF_vars(Drain)
    /\ WF_vars(EngineAnswer)
    /\ WF_vars(EngineQuit)

\* Only the drain thread is sure to run; the main flow may stand still.
DrainFairSpec == InitWith(DrainProfiles) /\ [][Next]_vars /\ WF_vars(Drain)

(***************************************************************************)
(* Notions used by the properties                                          *)
(***************************************************************************)
RECURSIVE Flatten(_)
Flatten(chunks) ==
    IF chunks = <<>> THEN <<>> ELSE Head(chunks) \o Flatten(Tail(chunks))

\* the engine's output so far, cut after every "\n"
RECURSIVE SplitLines(_)
SplitLines(bytes) ==
    IF bytes = <<>> THEN <<>>
    ELSE <<ReadLine(bytes)>> \o SplitLines(AfterReadLine(bytes))

EmittedLines == SplitLines(Flatten(emitted))

\* the text of a raw line: its bytes without the terminator, decoded
LineText(raw) ==
    Decode(IF raw # <<>> /\ raw[Len(raw)] = NL THEN SubSeq(raw, 1, Len(raw) - 1) ELSE raw)

Protocol == <<"aei", "isready", "newgame", SETPOSITION, SETOPTION, "go", "quit">>

IsPrefix(a, b) == Len(a) <= Len(b) /\ \A i \in 1..Len(a) : a[i] = b[i]

\* the order of the main flow's positions
Rank(p) ==
    CASE p = "send_aei" -> 1
      [] p = "wait_aeiok" -> 2
      [] p = "send_isready" -> 3
      [] p = "wait_readyok" -> 4
      [] p = "send_newgame" -> 5
      [] p = "send_setposition" -> 6
      [] p = "send_setoption" -> 7
      [] p = "send_go" -> 8
      [] p = "searching" -> 9
      [] p = "send_quit" -> 10
      [] p = "wait_exit" -> 11
      [] p = "done" -> 12
      [] p = "aborted" -> 13

SendPcs == {"send_aei", "send_isready", "send_newgame", "send_setposition",
            "send_setoption", "send_go", "send_quit"}

\* the main flow performed its step
MainStepped == pc' # pc \/ popped' # popped \/ emptyPolls' # emptyPolls

\* the driver has left INIT (it popped its "aeiok")
PastInit == Len(sent) >= 1 /\ pc # "wait_aeiok"

\* the driver has left SEARCHING ("go" was delivered and the loop is over)
LeftSearching == Len(sent) >= 6 /\ pc # "searching"

(***************************************************************************)
(* C1: the lines popped so far are the first lines the engine emitted, in  *)
(* the engine's order, none skipped, repeated, reordered or merged.        *)
(***************************************************************************)
C1_PoppedIsPrefixOfEmitted ==
    LET lines == EmittedLines
    IN  /\ Len(popped) <= Len(lines)
        /\ \A i \in 1..Len(popped) : popped[i] = LineText(lines[i])

\* two different lines were popped in order while the drain had queued more
C1_Witness ==
    /\ Len(popped) >= 2
    /\ popped[1] # popped[2]
    /\ q # <<>>
    /\ pipe # <<>>

(***************************************************************************)
(* C2: the commands delivered are a prefix of aei, isready, newgame,       *)
(* setposition, setoption, go, quit; isready follows a popped aeiok line,  *)
(* newgame a popped readyok line, quit a popped bestmove line; nothing is  *)
(* popped between newgame and go; the main flow only moves forward.        *)
(***************************************************************************)
C2_SentInOrder ==
    /\ IsPrefix([i \in 1..Len(sent) |-> sent[i].cmd], Protocol)
    /\ \A i \in 1..Len(sent) : sent[i].after <= Len(popped)
    /\ Len(sent) >= 2 => \E j \in 1..sent[2].after : IsAeiok(popped[j])
    /\ Len(sent) >= 3 =>
         \E j \in (sent[2].after + 1)..sent[3].after : IsReadyok(popped[j])
    /\ Len(sent) >= 6 => sent[6].after = sent[3].after
    /\ Len(sent) >= 7 =>
         \E j \in (sent[6].after + 1)..sent[7].after : StartsWithBestmove(popped[j])

C2_CommandSequence ==
    /\ []C2_SentInOrder
    /\ [][Rank(pc') >= Rank(pc) /\ IsPrefix(sent, sent')]_vars

C2_Witness ==
    /\ Len(sent) = 7
    /\ pc = "done"

(***************************************************************************)
(* C3: in the two handshake waits a popped line that is not the awaited    *)
(* sentinel changes neither the position nor what was sent; with the       *)
(* output protocol-version 1, id name Foo, aeiok the driver leaves INIT    *)
(* exactly when the third line is popped.                                  *)
(***************************************************************************)
C3_NonSentinelIgnored ==
    /\ (pc = "wait_aeiok" /\ popped' # popped /\ ~IsAeiok(line')) => pc' = pc
    /\ (pc = "wait_readyok" /\ popped' # popped /\ ~IsReadyok(line')) => pc' = pc
    /\ (pc \in {"wait_aeiok", "wait_readyok"} /\ popped' # popped) =>
          /\ popped' = Append(popped, line')
          /\ UNCHANGED <<sent, stdin, wbuf, err, bestmove>>

C3_Scenario1 ==
    (Len(emitted) >= 3 /\ SubSeq(emitted, 1, 3) = <<PROTO, IDNAME, AEIOK>>) =>
        /\ PastInit <=> Len(popped) >= 3
        /\ PastInit => sent[1].after = 0
        /\ Len(sent) >= 2 => sent[2].after = 3

C3_HandshakeIgnoresOtherLines ==
    /\ []C3_Scenario1
    /\ [][C3_NonSentinelIgnored]_vars

C3_Witness ==
    /\ Len(emitted) >= 3
    /\ SubSeq(emitted, 1, 3) = <<PROTO, IDNAME, AEIOK>>
    /\ popped = <<LineText(PROTO), LineText(IDNAME), LineText(AEIOK)>>
    /\ pc = "wait_readyok"

(***************************************************************************)
(* C4: once the driver has left SEARCHING its result is the whole text of  *)
(* the first line starting with "bestmove" that was popped after "go".     *)
(***************************************************************************)
C4_ResultIsFirstBestmoveLine ==
    LeftSearching =>
        \E i \in (sent[6].after + 1)..Len(popped) :
            /\ StartsWithBestmove(popped[i])
            /\ \A j \in (sent[6].after + 1)..(i - 1) : ~StartsWithBestmove(popped[j])
            /\ bestmove = popped[i]

\* the result is taken and a different bestmove line arrived after it
C4_Witness ==
    /\ LeftSearching
    /\ bestmove # None
    /\ \E k \in 1..Len(q) : StartsWithBestmove(q[k]) /\ q[k] # bestmove

(***************************************************************************)
(* C5: when the bestmove line polled in SEARCHING is "bestmove Hh2n"       *)
(***************************************************************************)
BestmoveHh2nPolled ==
    /\ LeftSearching
    /\ popped[Len(popped)] = <<"bestmove", " ", "Hh2n">>

\* C5 as stated: the result is the move text "Hh2n", without the marker
C5_ResultIsMoveText == BestmoveHh2nPolled => bestmove = <<"Hh2n">>

\* C5 as amended: the result is the whole line "bestmove Hh2n"
C5_ResultIsWholeLine == BestmoveHh2nPolled => bestmove = <<"bestmove", " ", "Hh2n">>

C5_Witness == BestmoveHh2nPolled /\ pc = "done"

(***************************************************************************)
(* C6: once a bestmove line was taken as the result, the main flow pops no *)
(* further line and the result stays, whatever the engine still emits.     *)
(***************************************************************************)
C6_PollingStopsAtBestmove ==
    [][bestmove # None =>
          /\ popped' = popped
          /\ bestmove' = bestmove
          /\ IsPrefix(q, q')]_vars

\* the result is set and a later bestmove line sits unread in the queue
C6_Witness ==
    /\ bestmove # None
    /\ pc = "done"
    /\ \E k \in 1..Len(q) : StartsWithBestmove(q[k])

(***************************************************************************)
(* C7: with the move time configured, a search in which no bestmove line   *)
(* ever arrives is left by the driver (with a timeout error).              *)
(***************************************************************************)
BestmovePending ==
    \/ \E k \in 1..Len(q) : StartsWithBestmove(q[k])
    \/ \E k \in 1..Len(pipe) : pipe[k] = "bestmove"

C7_SearchIsLeft == (pc = "searching") ~> (pc # "searching" \/ BestmovePending)

(***************************************************************************)
(* C8: a line that is not valid UTF-8 does not stop the drain.             *)
(***************************************************************************)
C8_DrainSurvivesBadBytes == drain # "crashed"

(***************************************************************************)
(* C9: a send to an engine that no longer reads its input raises           *)
(* BrokenPipeError, delivers nothing, and ends the main flow: no command   *)
(* follows it.                                                             *)
(***************************************************************************)
C9_FailedSendStep ==
    /\ (pc \in SendPcs /\ ~stdinOpen /\ MainStepped) =>
          /\ pc' = "aborted"
          /\ err' = "BrokenPipeError"
          /\ sent' = sent
          /\ stdin' = stdin
    /\ err # "none" => (pc' = pc /\ sent' = sent /\ stdin' = stdin)

C9_BrokenPipeAborts ==
    /\ [](err # "none" => pc = "aborted")
    /\ [](pc = "aborted" => err = "BrokenPipeError")
    /\ [][C9_FailedSendStep]_vars

\* the engine went away in mid-session and the next send failed
C9_Witness ==
    /\ pc = "aborted"
    /\ err = "BrokenPipeError"
    /\ Len(sent) = 5

(***************************************************************************)
(* C10: whenever the main flow has ended, the engine process was waited    *)
(* for.                                                                    *)
(***************************************************************************)
C10_ReapedOnEveryExit == Terminated => reaped

(***************************************************************************)
(* C11: a driver blocked in a handshake wait on an empty queue, after the  *)
(* drain has ended at the end of the stream, gets out of that wait.        *)
(***************************************************************************)
BlockedOnClosedChannel ==
    /\ pc \in {"wait_aeiok", "wait_readyok"}
    /\ drain = "closed"
    /\ q = <<>>

C11_BlockedPopReturns ==
    BlockedOnClosedChannel ~> (pc \notin {"wait_aeiok", "wait_readyok"})

(***************************************************************************)
(* C12: what has reached the engine's input is, command by command, the    *)
(* command followed by one "\n"; a delivered send leaves nothing buffered, *)
(* and nothing is buffered while the main flow does anything else.         *)
(***************************************************************************)
RECURSIVE FramedCommands(_)
FramedCommands(cmds) ==
    IF cmds = <<>> THEN <<>>
    ELSE <<Head(cmds).cmd, "\n">> \o FramedCommands(Tail(cmds))

C12_WrittenAndFlushed ==
    /\ stdin = FramedCommands(sent)
    /\ pc # "aborted" => wbuf = <<>>

C12_Witness ==
    /\ pc = "wait_readyok"
    /\ stdin = <<"aei", "\n", "isready", "\n">>
    /\ wbuf = <<>>

(***************************************************************************)
(* C13: when the drain is through with the engine's whole output, it has   *)
(* pushed one line per "\n" of that output, each without a "\n" at its end.*)
(***************************************************************************)
Pushed == popped \o q

NumNL(bytes) == Cardinality({i \in 1..Len(bytes) : bytes[i] = NL})

DrainThrough == engine = "exited" /\ drain # "reading"

C13_OneLinePerTerminator ==
    /\ \A i \in 1..Len(Pushed) : Pushed[i] = <<>> \/ Pushed[i][Len(Pushed[i])] # NL
    /\ DrainThrough => Len(Pushed) = NumNL(Flatten(emitted))

(***************************************************************************)
(* C14: once the engine's output is at its end the drain thread ends, with *)
(* no help from the main flow, and an ended drain pushes nothing more.     *)
(***************************************************************************)
DrainOver == drain # "reading" \/ Terminated

C14_DrainEndsAtEndOfStream ==
    /\ (engine = "exited") ~> DrainOver
    /\ [][drain # "reading" =>
            /\ drain' = drain
            /\ IsPrefix(pipe, pipe')
            /\ q' = q \/ (q # <<>> /\ q' = Tail(q))]_vars

\* the drain closed while the main flow had not taken a single line
C14_Witness ==
    /\ drain = "closed"
    /\ popped = <<>>
    /\ Len(q) >= 2

(***************************************************************************)
(* C15: whenever a line can be read from the engine's output, the drain's  *)
(* step is enabled, whatever the queue holds and wherever the driver is.   *)
(***************************************************************************)
C15_DrainNeverWaitsForConsumer ==
    (drain = "reading" /\ LineReadable /\ ~Terminated) => ENABLED Drain

\* three lines wait unread for a driver still in its first wait, a fourth
\* can be read from the engine
C15_Witness ==
    /\ drain = "reading"
    /\ LineReadable
    /\ Len(q) >= 3
    /\ pc = "wait_aeiok"

(***************************************************************************)
(* C16: a handshake sentinel with blanks around it                         *)
(***************************************************************************)
Padded(l, word) ==
    /\ l # <<word>>
    /\ \E i \in 1..Len(l) :
        /\ l[i] = word
        /\ \A j \in (1..Len(l)) \ {i} : l[j] \in Whitespace

PaddedAeiokPopped == pc = "wait_aeiok" /\ popped' # popped /\ Padded(line', "aeiok")

PaddedReadyokPopped == pc = "wait_readyok" /\ popped' # popped /\ Padded(line', "readyok")

\* C16 as stated: the padded sentinel does not match, the driver stays
C16_PaddedSentinelIgnored ==
    [][(PaddedAeiokPopped \/ PaddedReadyokPopped) => pc' = pc]_vars

\* C16 as amended: the padded sentinel matches, the driver leaves the wait
C16_PaddedSentinelMatches ==
    [][/\ PaddedAeiokPopped => pc' = "send_isready"
       /\ PaddedReadyokPopped => pc' = "send_newgame"]_vars

\* both waits were left on a padded sentinel
C16_Witness ==
    /\ popped = <<LineText(PAD_AEIOK), LineText(PAD_READYOK)>>
    /\ pc = "send_newgame"

(***************************************************************************)
(* C18: a timed poll that finds the queue empty leaves the queue, the      *)
(* position, the result and the commands sent as they were; and every pop  *)
(* returns the next line of the engine's output, none lost in between.     *)
(***************************************************************************)
C18_EmptyPollStep ==
    /\ (pc = "searching" /\ q = <<>> /\ MainStepped) =>
          UNCHANGED <<q, pc, bestmove, line, sent, stdin, wbuf, popped, err>>
    /\ popped' # popped =>
          popped' = Append(popped, LineText(EmittedLines[Len(popped) + 1]))

C18_EmptyPollChangesNothing == [][C18_EmptyPollStep]_vars

\* the search polled an empty queue and took its bestmove line afterwards
C18_Witness ==
    /\ emptyPolls >= 1
    /\ bestmove # None
    /\ popped[Len(popped)] = bestmove

(***************************************************************************)
(* C19: when the output ends in an unterminated fragment and the drain has *)
(* closed, the fragment was pushed as the last line, after every           *)
(* terminated line.                                                        *)
(***************************************************************************)
EndsWithFragment ==
    /\ emitted # <<>>
    /\ Flatten(emitted)[Len(Flatten(emitted))] # NL

Texts == [i \in 1..Len(EmittedLines) |-> LineText(EmittedLines[i])]

Least(S) == CHOOSE x \in S : \A y \in S : x <= y

AeiokAt(t) == {i \in 1..Len(t) : IsAeiok(t[i])}

ReadyokAfter(t, a) == {i \in (a + 1)..Len(t) : IsReadyok(t[i])}

BestmoveAfter(t, r) == {i \in (r + 1)..Len(t) : StartsWithBestmove(t[i])}

C20_ResultByPosition ==
    bestmove # None =>
        LET t == Texts
        IN  /\ AeiokAt(t) # {}
            /\ LET a == Least(AeiokAt(t))
               IN  /\ ReadyokAfter(t, a) # {}
                   /\ LET r == Least(ReadyokAfter(t, a))
                      IN  /\ BestmoveAfter(t, r) # {}
                          /\ LET b == Least(BestmoveAfter(t, r))
                             IN  bestmove = t[b] /\ Len(popped) = b

\* a bestmove line was used up in INIT and a later one became the result
C20_Witness ==
    /\ bestmove # None
    /\ StartsWithBestmove(popped[1])
    /\ popped[1] # bestmove

(***************************************************************************)
(* C17: with both threads scheduled fairly and an engine that answers aei, *)
(* isready and go and exits on quit, the session reaches DONE: quit was    *)
(* delivered, the engine's exit was observed, and a result is recorded.    *)
(***************************************************************************)
SessionDone ==
    /\ pc = "done"
    /\ Len(sent) = 7
    /\ reaped
    /\ bestmove # None

C17_SessionCompletes == <>SessionDone

====
